---- MODULE Spec2Model ----
(***************************************************************************)
(* Model of the input-tools front-end: the text segmenter and the URL      *)
(* builder of utils.ts, and the pagination, debounce, selection and paging *)
(* logic of the InputTools component of input-tools.tsx.                   *)
(*                                                                         *)
(* A text is a sequence of UTF-16 code units (integers): the code decides  *)
(* by code unit ranges, so characters are modelled by their code.          *)
(***************************************************************************)
EXTENDS Integers, Sequences, FiniteSets, TLC

(***************************************************************************)
(* Bounds of the model.                                                    *)
(***************************************************************************)
\* number of texts, of the list EventTextList, the buffer-change events carry
MaxTexts == 7
\* size of the largest candidate list the provider returns
MaxItems == 7

(***************************************************************************)
(* Constants of the program.                                               *)
(***************************************************************************)
SUGGESTIONS_PER_PAGE == 6
DEBOUNCE_DELAY == 200
INITIAL_DEBOUNCE_DELAY == 100

\* the texts of the buffer-change events, in the order the bound takes them
\* in: the empty text, a Latin letter (a), a CJK character (U+4F60), the
\* digits 0, 2 and 9, two digits reported at once (02), and longer texts
EventTextList ==
  << <<>>, <<97>>, <<20320>>, <<48>>, <<50>>, <<57>>, <<48, 50>>,
     <<97, 48>>, <<97, 32>>, <<20320, 97>> >>

EventTexts ==
  {EventTextList[i] : i \in 1..(IF MaxTexts < Len(EventTextList)
                                THEN MaxTexts ELSE Len(EventTextList))}

Min(a, b) == IF a < b THEN a ELSE b
Max(a, b) == IF a > b THEN a ELSE b

(***************************************************************************)
(* utils.ts: the segmenter.                                                *)
(***************************************************************************)
\* CHINESE_REGEX = /[\u4e00-\u9fff]/g: the character class
CHINESE_REGEX(c) == c >= 19968 /\ c <= 40959

\* NUMERIC_REGEX = /[0-9]/g: the character class
NUMERIC_REGEX(c) == c >= 48 /\ c <= 57

\* RegExp.prototype.test of a global regex on a one-character string: the
\* search starts at lastIndex; a match leaves lastIndex after the match, a
\* failure resets it to 0.
RegexTest(inClass, lastIndex) ==
  LET found == lastIndex = 0 /\ inClass
  IN  [result |-> found, lastIndex |-> IF found THEN 1 ELSE 0]

\* one iteration of the loop of separateChineseAndEnglish
SeparateStep(acc, c) ==
  LET ct == RegexTest(CHINESE_REGEX(c), acc.chineseLastIndex)
  IN  IF ct.result
      THEN [acc EXCEPT !.chinese = Append(@, c), !.chineseLastIndex = 0]
      ELSE LET nt == RegexTest(NUMERIC_REGEX(c), acc.numericLastIndex)
           IN  IF ~nt.result
               THEN [acc EXCEPT !.english = Append(@, c),
                                !.chineseLastIndex = ct.lastIndex,
                                !.numericLastIndex = 0]
               ELSE [acc EXCEPT !.chineseLastIndex = ct.lastIndex,
                                !.numericLastIndex = nt.lastIndex]

RECURSIVE SeparateLoop(_, _, _)
SeparateLoop(acc, text, i) ==
  IF i > Len(text) THEN acc
  ELSE SeparateLoop(SeparateStep(acc, text[i]), text, i + 1)

\* separateChineseAndEnglish(text), called with the two global regexes in the
\* state re = [chineseLastIndex, numericLastIndex]; returns the two strings
\* and the state the regexes are left in.
separateChineseAndEnglish(text, re) ==
  IF text = <<>>
  THEN [chinese |-> <<>>, english |-> <<>>,
        chineseLastIndex |-> re.chineseLastIndex,
        numericLastIndex |-> re.numericLastIndex]
  ELSE SeparateLoop([chinese |-> <<>>, english |-> <<>>,
                     chineseLastIndex |-> re.chineseLastIndex,
                     numericLastIndex |-> re.numericLastIndex], text, 1)

\* the state of the regexes after a call
RegexState(r) ==
  [chineseLastIndex |-> r.chineseLastIndex, numericLastIndex |-> r.numericLastIndex]

\* the state of the regexes when the module is loaded
FreshRegex == [chineseLastIndex |-> 0, numericLastIndex |-> 0]

(***************************************************************************)
(* utils.ts: the URL builder (the computation of a cache miss).            *)
(***************************************************************************)
\* the characters encodeURIComponent leaves alone: A-Z a-z 0-9 - _ . ! ~ * ' ( )
IsUnreserved(c) ==
  \/ (c >= 65 /\ c <= 90) \/ (c >= 97 /\ c <= 122) \/ (c >= 48 /\ c <= 57)
  \/ c \in {45, 95, 46, 33, 126, 42, 39, 40, 41}

HexDigit(d) == IF d < 10 THEN 48 + d ELSE 55 + d

PercentByte(b) == <<37, HexDigit(b \div 16), HexDigit(b % 16)>>

\* the UTF-8 bytes of a character of the basic plane
Utf8(c) ==
  IF c < 128 THEN <<c>>
  ELSE IF c < 2048 THEN <<192 + (c \div 64), 128 + (c % 64)>>
  ELSE <<224 + (c \div 4096), 128 + ((c \div 64) % 64), 128 + (c % 64)>>

RECURSIVE PercentBytes(_, _)
PercentBytes(bytes, i) ==
  IF i > Len(bytes) THEN <<>>
  ELSE PercentByte(bytes[i]) \o PercentBytes(bytes, i + 1)

RECURSIVE encodeURIComponent(_)
encodeURIComponent(text) ==
  IF text = <<>> THEN <<>>
  ELSE (IF IsUnreserved(Head(text)) THEN <<Head(text)>>
        ELSE PercentBytes(Utf8(Head(text)), 1))
       \o encodeURIComponent(Tail(text))

\* const input = chinese ? `|${chinese},${english}` : english
UrlInput(english, chinese) ==
  IF chinese # <<>> THEN <<124>> \o chinese \o <<44>> \o english ELSE english

\* the URL of buildSuggestionsUrl: the text before the encoded input, the
\* encoded input, the text after it, the callback name
buildSuggestionsUrl(english, chinese) ==
  << "https://inputtools.google.com/request?text=",
     encodeURIComponent(UrlInput(english, chinese)),
     "&itc=yue-hant-t-i0-und&num=13&cp=0&cs=1&ie=utf-8&oe=utf-8&app=jsapi&cb=",
     "_callbacks____raycast" >>

\* the empty string, which a URL is when there is nothing to fetch
NoUrl == <<>>

\* MAX_CACHE_SIZE = 100
MAX_CACHE_SIZE == 100

\* urlCache is a Map: its entries in insertion order, the keys distinct
\* urlCache.has(cacheKey)
CacheHas(cache, cacheKey) == \E i \in DOMAIN cache : cache[i].key = cacheKey

\* urlCache.get(cacheKey)
CacheGet(cache, cacheKey) ==
  cache[CHOOSE i \in DOMAIN cache : cache[i].key = cacheKey].url

\* buildSuggestionsUrl with a cache whose key is the query alone
buildSuggestionsUrlWithCache_KeyIsQuery(english, chinese, cache) ==
  LET cacheKey == english
  IN  IF CacheHas(cache, cacheKey)
      THEN [url |-> CacheGet(cache, cacheKey), cache |-> cache, hit |-> TRUE]
      ELSE LET url == buildSuggestionsUrl(english, chinese)
               kept == IF Len(cache) >= MAX_CACHE_SIZE /\ cache[1].key # <<>>
                       THEN Tail(cache) ELSE cache
           IN  [url |-> url,
                cache |-> Append(kept, [key |-> cacheKey, url |-> url]),
                hit |-> FALSE]

\* buildSuggestionsUrl(english, chinese) called with urlCache = cache: the
\* URL returned, the cache left, and whether the key was in the cache. A
\* miss on a full cache deletes the first key, unless that key is the empty
\* string (if (firstKey)), and then sets the new key.
buildSuggestionsUrlWithCache(english, chinese, cache) ==
  LET cacheKey == UrlInput(english, chinese)
  IN  IF CacheHas(cache, cacheKey)
      THEN [url |-> CacheGet(cache, cacheKey), cache |-> cache, hit |-> TRUE]
      ELSE LET url == buildSuggestionsUrl(english, chinese)
               kept == IF Len(cache) >= MAX_CACHE_SIZE /\ cache[1].key # <<>>
                       THEN Tail(cache) ELSE cache
           IN  [url |-> url,
                cache |-> Append(kept, [key |-> cacheKey, url |-> url]),
                hit |-> FALSE]

(***************************************************************************)
(* input-tools.tsx: pagination.                                            *)
(***************************************************************************)
\* Math.ceil(a / b) for b > 0
CeilDiv(a, b) == -((-a) \div b)

\* usePagination without the clamp of the page index
usePagination_NoClamp(totalItems, itemsPerPage, currentPage) ==
  LET safeItemsPerPage == Max(1, itemsPerPage)
      totalPages == Max(1, CeilDiv(totalItems, safeItemsPerPage))
      safePage == currentPage
  IN  [totalPages |-> totalPages,
       hasNextPage |-> safePage < totalPages - 1,
       hasPreviousPage |-> safePage > 0,
       startIndex |-> safePage * safeItemsPerPage,
       endIndex |-> (safePage + 1) * safeItemsPerPage,
       currentPage |-> safePage]

\* usePagination with Math.floor for Math.ceil
usePagination_Floor(totalItems, itemsPerPage, currentPage) ==
  LET safeItemsPerPage == Max(1, itemsPerPage)
      totalPages == Max(1, totalItems \div safeItemsPerPage)
      safePage == Min(currentPage, totalPages - 1)
  IN  [totalPages |-> totalPages,
       hasNextPage |-> safePage < totalPages - 1,
       hasPreviousPage |-> safePage > 0,
       startIndex |-> safePage * safeItemsPerPage,
       endIndex |-> (safePage + 1) * safeItemsPerPage,
       currentPage |-> safePage]

usePagination(totalItems, itemsPerPage, currentPage) ==
  LET safeItemsPerPage == Max(1, itemsPerPage)
      totalPages == Max(1, CeilDiv(totalItems, safeItemsPerPage))
      safePage == Min(currentPage, totalPages - 1)
  IN  [totalPages |-> totalPages,
       hasNextPage |-> safePage < totalPages - 1,
       hasPreviousPage |-> safePage > 0,
       startIndex |-> safePage * safeItemsPerPage,
       endIndex |-> (safePage + 1) * safeItemsPerPage,
       currentPage |-> safePage]

\* Array.prototype.slice(start, end) for 0 <= start <= end
Slice(seq, start, end) ==
  LET lo == Min(start, Len(seq))
      hi == Min(end, Len(seq))
  IN  [i \in 1..(hi - lo) |-> seq[lo + i]]

\* the candidates of the displayed page, with their 1-based positions
paginatedSuggestions(suggestionList, pagination) ==
  IF Len(suggestionList) = 0 THEN <<>>
  ELSE LET page == Slice(suggestionList, pagination.startIndex, pagination.endIndex)
       IN  [i \in 1..Len(page) |-> [text |-> page[i], index |-> i]]

(***************************************************************************)
(* The provider: the candidate lists a response can carry.                 *)
(***************************************************************************)
\* the i-th candidate of a response: one CJK character, U+4F60 or the
\* traditional form U+5B78
Candidate(i) == IF i % 4 \in {0, 1} THEN <<20320>> ELSE <<23416>>

ProviderList(n) == [i \in 1..n |-> Candidate(i)]

Responses == {ProviderList(n) : n \in {1, MaxItems}}

\* the error useFetch holds: none
NoError == ""

\* the messages of the errors parseResponse throws: of the decoder, and for
\* a response that is not ok
ErrorMessages == {"Failed to parse JSON response", "HTTP 500: Internal Server Error"}

(***************************************************************************)
(* input-tools.tsx: the state of the InputTools component.                 *)
(***************************************************************************)
VARIABLES
  searchText,             \* useState(""): the persisted buffer
  hasSelectedSuggestion,  \* useState(false)
  debouncedSearchText,    \* the state of useDebounce
  timers,                 \* the values of the armed timeouts of useDebounce
  currentPage,            \* useState(0): the stored page index
  suggestionsUrl,         \* the memoized URL
  suggestions,            \* data of useFetch: the candidate list
  pending,                \* the URL of the latest call of useFetch, while unanswered
  stale,                  \* whether superseded calls of useFetch have yet to complete
  regex,                  \* lastIndex of CHINESE_REGEX and NUMERIC_REGEX
  urlCache,               \* the entries of urlCache, oldest first
  error,                  \* error of useFetch: the message, or NoError
  pureIn,                 \* the arguments of a call of a pure function
  pureOut                 \* and its result

vars == <<searchText, hasSelectedSuggestion, debouncedSearchText, timers,
          currentPage, suggestionsUrl, suggestions, pending, stale, regex,
          urlCache, error, pureIn, pureOut>>

componentVars == <<searchText, hasSelectedSuggestion, debouncedSearchText, timers,
                   currentPage, suggestionsUrl, suggestions, pending, stale,
                   urlCache, error>>

\* String.prototype.trim
IsWhiteSpace(c) ==
  c \in {9, 10, 11, 12, 13, 32, 160, 5760, 8232, 8233, 8239, 8287, 12288, 65279}
  \/ (c >= 8192 /\ c <= 8202)

RECURSIVE TrimStart(_)
TrimStart(text) ==
  IF text # <<>> /\ IsWhiteSpace(Head(text)) THEN TrimStart(Tail(text)) ELSE text

RECURSIVE TrimEnd(_)
TrimEnd(text) ==
  IF text # <<>> /\ IsWhiteSpace(text[Len(text)])
  THEN TrimEnd(SubSeq(text, 1, Len(text) - 1)) ELSE text

Trim(text) == TrimEnd(TrimStart(text))

\* NUMERIC_KEYS = new Set(["1", "2", "3", "4", "5", "6", "9", "0"])
NUMERIC_KEYS == {49, 50, 51, 52, 53, 54, 57, 48}

\* the characters "." does not match
IsLineTerminator(c) == c \in {10, 13, 8232, 8233}

\* text.match(/^(.*?)([1-6]|9|0)$/): <<base, digit>>, or <<>> for no match
SELECTION_REGEX(text) ==
  IF /\ text # <<>>
     /\ text[Len(text)] \in {49, 50, 51, 52, 53, 54, 57, 48}
     /\ \A i \in 1..(Len(text) - 1) : ~IsLineTerminator(text[i])
  THEN <<SubSeq(text, 1, Len(text) - 1), text[Len(text)]>>
  ELSE <<>>

\* the delay useDebounce is called with
DebounceDelay(hasSelected) ==
  IF hasSelected THEN DEBOUNCE_DELAY ELSE INITIAL_DEBOUNCE_DELAY

\* the pagination of the last render
Pagination == usePagination(Len(suggestions), SUGGESTIONS_PER_PAGE, currentPage)

\* the displayed page of the last render
Page == paginatedSuggestions(suggestions, Pagination)

\* the converter of opencc-js from "hk" to "cn", character by character:
\* U+5B78 has the simplified form U+5B66, the other characters of the model
\* are their own simplified form
Converter(text) == [i \in 1..Len(text) |-> IF text[i] = 23416 THEN 23398 ELSE text[i]]

\* useOpenCCConverter(enabled): whether a converter is held (null otherwise)
useOpenCCConverter(enabled) == enabled

\* convertIfNeeded(text), for the preference and the converter of the render
convertIfNeeded(text, simplifiedChinese, converter) ==
  IF ~simplifiedChinese \/ ~converter \/ text = <<>> THEN text ELSE Converter(text)

\* the state the handlers of one render read and set
HandlerState ==
  [searchText |-> searchText, hasSelectedSuggestion |-> hasSelectedSuggestion,
   currentPage |-> currentPage, suggestions |-> suggestions, regex |-> regex]

\* goToNextPage without the increment
goToNextPage_NoAdvance(s, pagination) ==
  IF pagination.hasNextPage
  THEN [s EXCEPT !.currentPage = Min(@, pagination.totalPages - 1)]
  ELSE s

goToNextPage(s, pagination) ==
  IF pagination.hasNextPage
  THEN [s EXCEPT !.currentPage = Min(@ + 1, pagination.totalPages - 1)]
  ELSE s

goToPreviousPage(s, pagination) ==
  IF pagination.hasPreviousPage
  THEN [s EXCEPT !.currentPage = Max(@ - 1, 0)]
  ELSE s

\* handleSuggestionSelect appending to the whole buffer
handleSuggestionSelect_KeepsQuery(s, suggestion) ==
  LET sep == separateChineseAndEnglish(searchText, s.regex)
  IN  [s EXCEPT !.searchText = sep.chinese \o sep.english \o suggestion.text,
                !.hasSelectedSuggestion = TRUE,
                !.suggestions = <<>>,
                !.regex = RegexState(sep)]

\* handleSuggestionSelect appending the converted candidate
handleSuggestionSelect_Converts(s, suggestion) ==
  LET sep == separateChineseAndEnglish(searchText, s.regex)
  IN  [s EXCEPT !.searchText =
                   sep.chinese \o convertIfNeeded(suggestion.text, pureIn.simplifiedChinese,
                                                  useOpenCCConverter(pureIn.simplifiedChinese)),
                !.hasSelectedSuggestion = TRUE,
                !.suggestions = <<>>,
                !.regex = RegexState(sep)]

\* handleSuggestionSelect: searchText is the buffer of the last render; the
\* optimistic update of mutate sets the data to []
handleSuggestionSelect(s, suggestion) ==
  LET sep == separateChineseAndEnglish(searchText, s.regex)
  IN  [s EXCEPT !.searchText = sep.chinese \o suggestion.text,
                !.hasSelectedSuggestion = TRUE,
                !.suggestions = <<>>,
                !.regex = RegexState(sep)]

\* handleNumericAction(text): whether the text was handled, and the state left
handleNumericAction(s, text, pagination, page) ==
  LET numberMatch == SELECTION_REGEX(text)
      unhandled == [handled |-> FALSE, state |-> s]
  IN  IF text = <<>> \/ text[Len(text)] \notin NUMERIC_KEYS THEN unhandled
      ELSE IF numberMatch = <<>> THEN unhandled
      ELSE LET baseText == numberMatch[1]
               num == numberMatch[2] - 48
           IN  IF num >= 1 /\ num <= 6
               THEN IF num - 1 < Len(page)
                    THEN [handled |-> TRUE,
                          state |-> handleSuggestionSelect(s, page[num])]
                    ELSE unhandled
               ELSE IF num = 0 /\ pagination.hasNextPage
               THEN [handled |-> TRUE,
                     state |-> [goToNextPage(s, pagination)
                                  EXCEPT !.searchText = baseText]]
               ELSE IF num = 9 /\ pagination.hasPreviousPage
               THEN [handled |-> TRUE,
                     state |-> [goToPreviousPage(s, pagination)
                                  EXCEPT !.searchText = baseText]]
               ELSE unhandled

\* the state handleSearchTextChange(text) leaves
AfterSearchTextChange(text) ==
  LET s0 == [HandlerState EXCEPT !.hasSelectedSuggestion =
                                    IF Trim(text) = <<>> THEN FALSE ELSE @]
      numeric == handleNumericAction(s0, text, Pagination, Page)
  IN  IF numeric.handled THEN numeric.state
      ELSE LET sep == separateChineseAndEnglish(text, s0.regex)
           IN  [s0 EXCEPT !.searchText = sep.chinese \o sep.english,
                          !.regex = RegexState(sep)]

\* useDebounce without clearTimeout
useDebounce_NoClear(armed, value, delay, newValue, newDelay) ==
  IF newValue # value \/ newDelay # delay THEN armed \cup {newValue} ELSE armed

\* the effect of useDebounce: when the value or the delay changed, the armed
\* timeout is cleared and a timeout is armed for the new value
useDebounce(armed, value, delay, newValue, newDelay) ==
  IF newValue # value \/ newDelay # delay THEN {newValue} ELSE armed

\* onSearchTextChange: the search bar reports the text it holds
handleSearchTextChange(text) ==
  LET s == AfterSearchTextChange(text)
  IN  /\ searchText' = s.searchText
      /\ hasSelectedSuggestion' = s.hasSelectedSuggestion
      /\ currentPage' = s.currentPage
      /\ suggestions' = s.suggestions
      /\ regex' = s.regex
      /\ timers' = useDebounce(timers, searchText, DebounceDelay(hasSelectedSuggestion),
                               s.searchText, DebounceDelay(s.hasSelectedSuggestion))
      /\ UNCHANGED <<debouncedSearchText, suggestionsUrl, pending, stale, urlCache,
                     error, pureIn, pureOut>>

\* no page reset effect
ResetPageEffect_Never(page, debounced, newDebounced) == page

\* keepPreviousData: false: the data is the initial data while a call loads
KeepPreviousData_Off(data) == <<>>

\* the effect that resets the page: it runs when debouncedSearchText changed
ResetPageEffect(page, debounced, newDebounced) ==
  IF newDebounced # debounced THEN 0 ELSE page

\* keepPreviousData: true: the data useFetch returns while a new call loads
KeepPreviousData(data) == data

\* the memo suggestionsUrl without its dependency: it is never recomputed
SuggestionsUrlMemo_NoDependency(debounced, re, cache) ==
  [url |-> suggestionsUrl, regex |-> re, cache |-> cache, built |-> {}]

\* the memo suggestionsUrl for a debounced text: the URL, the state the
\* regexes and the cache are left in, and the arguments buildSuggestionsUrl
\* was called with (none when it was not called)
SuggestionsUrlMemo(debounced, re, cache) ==
  IF Trim(debounced) = <<>>
  THEN [url |-> NoUrl, regex |-> re, cache |-> cache, built |-> {}]
  ELSE LET sep == separateChineseAndEnglish(debounced, re)
           build == buildSuggestionsUrlWithCache(sep.english, sep.chinese, cache)
       IN  IF Trim(sep.english) = <<>>
           THEN [url |-> NoUrl, regex |-> RegexState(sep), cache |-> cache,
                 built |-> {}]
           ELSE [url |-> build.url, regex |-> RegexState(sep),
                 cache |-> build.cache,
                 built |-> {[english |-> sep.english, chinese |-> sep.chinese]}]

\* whether superseded calls are outstanding after a new call: the call that
\* was pending is superseded
Superseded(outstanding, wasPending) == outstanding \/ wasPending

\* a timeout of useDebounce fires: setDebouncedValue(value); when the
\* debounced text changes, the page is reset, the URL is recomputed and
\* useFetch starts a call for a new non-empty URL
DebounceFire(value) ==
  /\ value \in timers
  /\ timers' = timers \ {value}
  /\ debouncedSearchText' = value
  /\ currentPage' = ResetPageEffect(currentPage, debouncedSearchText, value)
  /\ IF value = debouncedSearchText
     THEN UNCHANGED <<suggestionsUrl, regex, urlCache, pending, stale, suggestions>>
     ELSE LET memo == SuggestionsUrlMemo(value, regex, urlCache)
          IN  /\ suggestionsUrl' = memo.url
              /\ regex' = memo.regex
              /\ urlCache' = memo.cache
              /\ suggestions' = IF memo.url # suggestionsUrl
                                THEN KeepPreviousData(suggestions)
                                ELSE suggestions
              /\ IF memo.url # suggestionsUrl /\ memo.url # NoUrl
                 THEN /\ pending' = memo.url
                      /\ stale' = Superseded(stale, pending # NoUrl)
                 ELSE UNCHANGED <<pending, stale>>
  /\ UNCHANGED <<searchText, hasSelectedSuggestion, error, pureIn, pureOut>>

\* the response of the latest call arrives and is parsed: it becomes the
\* data, and the error is cleared
ReceiveResponse(candidates) ==
  /\ pending # NoUrl
  /\ suggestions' = candidates
  /\ error' = NoError
  /\ pending' = NoUrl
  /\ UNCHANGED <<searchText, hasSelectedSuggestion, debouncedSearchText, timers,
                 currentPage, suggestionsUrl, stale, regex, urlCache,
                 pureIn, pureOut>>

\* a failed call that is started again
ReceiveError_Retries(message) ==
  /\ pending # NoUrl
  /\ error' = message
  /\ suggestions' = KeepPreviousData(suggestions)
  /\ pending' = pending
  /\ UNCHANGED <<searchText, hasSelectedSuggestion, debouncedSearchText, timers,
                 currentPage, suggestionsUrl, stale, regex, urlCache,
                 pureIn, pureOut>>

\* the latest call fails (the transport fails or parseResponse throws): the
\* error is set and shown by onError; the data is kept and nothing is
\* fetched again
ReceiveError(message) ==
  /\ pending # NoUrl
  /\ error' = message
  /\ suggestions' = KeepPreviousData(suggestions)
  /\ pending' = NoUrl
  /\ UNCHANGED <<searchText, hasSelectedSuggestion, debouncedSearchText, timers,
                 currentPage, suggestionsUrl, stale, regex, urlCache,
                 pureIn, pureOut>>

\* a superseded call completes (others may remain): its result is dropped
DiscardStale ==
  /\ stale
  /\ stale' \in BOOLEAN
  /\ UNCHANGED <<searchText, hasSelectedSuggestion, debouncedSearchText, timers,
                 currentPage, suggestionsUrl, suggestions, pending, regex,
                 urlCache, error, pureIn, pureOut>>

\* the component after it is mounted: the effect of useDebounce has armed a
\* timeout for the initial value
InitComponent ==
  /\ searchText = <<>>
  /\ hasSelectedSuggestion = FALSE
  /\ debouncedSearchText = <<>>
  /\ timers = {<<>>}
  /\ currentPage = 0
  /\ suggestionsUrl = NoUrl
  /\ suggestions = <<>>
  /\ pending = NoUrl
  /\ stale = FALSE
  /\ regex = FreshRegex
  /\ urlCache = <<>>
  /\ error = NoError

Init ==
  /\ InitComponent
  /\ pureIn = <<>>
  /\ pureOut = <<>>

Next ==
  \/ \E text \in EventTexts : handleSearchTextChange(text)
  \/ \E value \in timers : DebounceFire(value)
  \/ \E candidates \in Responses : ReceiveResponse(candidates)
  \/ \E message \in ErrorMessages : ReceiveError(message)
  \/ DiscardStale

Spec == Init /\ [][Next]_vars

(***************************************************************************)
(* The vocabulary of the properties: the segments of a text as the         *)
(* specification defines them, by the range of each character.             *)
(***************************************************************************)
IsDigit(c) == c \in 48..57

IsCJK(c) == c \in 19968..40959

IsQueryChar(c) == ~IsCJK(c) /\ ~IsDigit(c)

\* the retained segment of a text: its CJK characters, in order
Retained(text) == SelectSeq(text, IsCJK)

\* the query segment of a text: what is neither CJK nor a digit, in order
Query(text) == SelectSeq(text, IsQueryChar)

HasDigit(text) == \E i \in DOMAIN text : IsDigit(text[i])

\* the last character of an event text, 0 for the empty text
LastChar(text) == IF text = <<>> THEN 0 ELSE text[Len(text)]

\* the event text without its last character
Base(text) == SubSeq(text, 1, Len(text) - 1)

\* the page index that is displayed
DisplayedPage == Pagination.currentPage

\* C1: in every reachable state the persisted buffer holds no ASCII digit.
C1_NoDigitInBuffer == ~HasDigit(searchText)

\* C2: in every reachable state, a buffer-change event whose text ends in a
\* digit n of 1..6, on a page of at least n candidates, leaves the buffer
\* equal to the retained segment of the buffer before the event followed by
\* the text of the n-th candidate of the page (the base text is not used),
\* the has-selected flag set and the candidate list empty, without a
\* response.
C2_Selection ==
  \A text \in EventTexts :
    LET n == LastChar(text) - 48
        s == AfterSearchTextChange(text)
    IN  (n \in 1..6 /\ Len(Page) >= n)
        => /\ s.searchText = Retained(searchText) \o Page[n].text
           /\ s.hasSelectedSuggestion = TRUE
           /\ s.suggestions = <<>>

\* a selection of the second candidate of the first page has acted on the
\* buffer U+4F60
C2_Witness ==
  /\ hasSelectedSuggestion = TRUE
  /\ suggestions = <<>>
  /\ searchText = <<20320>> \o Candidate(2)

\* a control digit that cannot be applied in the current state
Inapplicable(n) ==
  \/ n \in 1..6 /\ Len(Page) < n
  \/ n = 0 /\ ~Pagination.hasNextPage
  \/ n = 9 /\ ~Pagination.hasPreviousPage

\* C3: a control keystroke that cannot be applied is a no-op: when the event
\* text is the buffer followed by a control digit, and the digit is 1..6 with
\* no such position on the page, or 0 with no next page, or 9 with no
\* previous page, then the buffer, the page index and the candidate list
\* are after the event what they were before it.
C3_InapplicableControlIsNoOp ==
  [][\A text \in EventTexts :
       (/\ text # <<>>
        /\ Base(text) = searchText
        /\ Inapplicable(LastChar(text) - 48)
        /\ handleSearchTextChange(text))
       => /\ searchText' = searchText
          /\ currentPage' = currentPage
          /\ suggestions' = suggestions]_vars

\* C4: in every reachable state, a buffer-change event with a text
\* base+"0", when a next page exists, increases the displayed page index by
\* exactly one, sets the buffer to base and leaves the candidate list
\* unchanged.
C4_NextPage ==
  \A text \in EventTexts :
    LET s == AfterSearchTextChange(text)
    IN  (LastChar(text) = 48 /\ Pagination.hasNextPage)
        => /\ usePagination(Len(s.suggestions), SUGGESTIONS_PER_PAGE,
                            s.currentPage).currentPage = DisplayedPage + 1
           /\ s.searchText = Base(text)
           /\ s.suggestions = suggestions

\* an event "0" has moved the display to the second page of a full list
C4_Witness ==
  /\ currentPage = 1
  /\ DisplayedPage = 1
  /\ Len(suggestions) = MaxItems
  /\ searchText = <<>>

\* a step that is a selection by a digit of 1..6
SelectionStep ==
  \E text \in EventTexts :
    /\ LastChar(text) - 48 \in 1..6
    /\ Len(Page) >= LastChar(text) - 48
    /\ handleSearchTextChange(text)

\* a step in which the response of the latest call is applied
LatestResponseStep ==
  /\ pending # NoUrl
  /\ \E candidates \in Responses : ReceiveResponse(candidates)

\* C5: the candidate list is only ever changed by the response of the most
\* recently dispatched call or by the optimistic clear of a selection; the
\* completion of a superseded call never changes it.
C5_OnlyLatestResponseOrClear ==
  [][/\ suggestions' # suggestions =>
          \/ LatestResponseStep
          \/ SelectionStep /\ suggestions' = <<>>
     /\ DiscardStale => suggestions' = suggestions]_vars

\* a superseded call is outstanding while the previous candidates are shown
\* and the latest call is unanswered
C5_Witness ==
  /\ stale
  /\ pending # NoUrl
  /\ suggestions # <<>>

\* the query segment of a text, a digit the buffer holds counted with it
QueryOrDigits(text) == SelectSeq(text, LAMBDA c : ~IsCJK(c))

\* a step that is a previous-page navigation
PreviousPageStep ==
  \E text \in EventTexts :
    /\ LastChar(text) = 57
    /\ Pagination.hasPreviousPage
    /\ handleSearchTextChange(text)

\* C6 as stated: the page index is reset to 0 every time the debounced query
\* segment changes and at no other time: a step that takes the page index
\* to 0 changes the debounced query segment, unless it is a previous-page
\* navigation.
C6_ResetOnlyOnQueryChange ==
  [][/\ QueryOrDigits(debouncedSearchText') # QueryOrDigits(debouncedSearchText)
          => currentPage' = 0
     /\ (currentPage # 0 /\ currentPage' = 0)
          => \/ QueryOrDigits(debouncedSearchText') # QueryOrDigits(debouncedSearchText)
             \/ PreviousPageStep]_vars

\* C6 as amended: the page index is reset to 0 every time the debounced
\* buffer changes (its query segment or its retained segment) and at no
\* other time: a raw buffer-change event and a page navigation (other than
\* the previous-page step itself) never take the page index to 0.
C6_ResetOnDebouncedChange ==
  [][/\ debouncedSearchText' # debouncedSearchText => currentPage' = 0
     /\ (currentPage # 0 /\ currentPage' = 0)
          => \/ debouncedSearchText' # debouncedSearchText
             \/ PreviousPageStep]_vars

\* a next-page event has emptied the buffer and moved to the second page;
\* its timeout is armed and the debounced buffer is still U+4F60: the page
\* index is not reset before the debounce
C6_Witness ==
  /\ currentPage = 1
  /\ searchText = <<>>
  /\ debouncedSearchText = <<20320>>
  /\ timers = {<<>>}

\* a step in which useFetch starts a call
DispatchStep ==
  /\ suggestionsUrl' # suggestionsUrl
  /\ suggestionsUrl' # NoUrl
  /\ \E value \in timers : DebounceFire(value)

\* C7: at most one timeout is armed, for the buffer of the last edit; a call
\* is dispatched only when that timeout fires, for the buffer as it stands,
\* and leaves no timeout armed.
C7_DebounceCoalesces ==
  /\ [](timers \subseteq {searchText})
  /\ [][DispatchStep =>
          /\ debouncedSearchText' = searchText
          /\ pending' = suggestionsUrl'
          /\ timers' = {}]_vars

\* the timeout has fired for the buffer "a" and its call is outstanding
C7_Witness ==
  /\ pending = buildSuggestionsUrl(<<97>>, <<>>)
  /\ debouncedSearchText = <<97>>
  /\ searchText = <<97>>
  /\ timers = {}

\* the number of pages of n items, from its definition
TotalPagesOf(n) ==
  CHOOSE k \in 1..(n + 1) :
    /\ k * SUGGESTIONS_PER_PAGE >= n
    /\ k = 1 \/ (k - 1) * SUGGESTIONS_PER_PAGE < n

\* C8: the stored page index is never negative; the displayed page index
\* lies in [0, totalPages - 1]; the displayed page holds at most 6
\* candidates, numbered 1..k, and is not empty when the list is not.
C8_PageInRange ==
  /\ currentPage >= 0
  /\ DisplayedPage \in 0..(TotalPagesOf(Len(suggestions)) - 1)
  /\ Len(Page) <= 6
  /\ \A i \in 1..Len(Page) :
        /\ Page[i].index = i
        /\ Page[i].text = suggestions[DisplayedPage * 6 + i]
  /\ suggestions # <<>> => Page # <<>>

\* the stored page index exceeds the pages of a list that shrank
C8_Witness ==
  /\ currentPage = 1
  /\ Len(suggestions) = 1
  /\ DisplayedPage = 0

(***************************************************************************)
(* The pagination hooks as pure functions of their arguments.              *)
(***************************************************************************)
\* largest totalItems, itemsPerPage and currentPage the hooks are called with
MaxTotalItems == 13
MaxPageSize == 7
MaxRequestedPage == 5

\* the split hooks of the second front-end variant
usePaginationCalculations(totalItems, itemsPerPage) ==
  LET safeItemsPerPage == Max(1, itemsPerPage)
      totalPages == Max(1, CeilDiv(totalItems, safeItemsPerPage))
  IN  [safeItemsPerPage |-> safeItemsPerPage, totalPages |-> totalPages]

usePaginationState(requestedPage, totalPages, safeItemsPerPage) ==
  LET safePage == Min(requestedPage, totalPages - 1)
      startIndex == safePage * safeItemsPerPage
      endIndex == (safePage + 1) * safeItemsPerPage
  IN  [hasNextPage |-> safePage < totalPages - 1,
       hasPreviousPage |-> safePage > 0,
       startIndex |-> startIndex,
       endIndex |-> endIndex,
       currentPage |-> safePage]

PaginationInputs ==
  [totalItems : 0..MaxTotalItems, itemsPerPage : (-1)..MaxPageSize,
   currentPage : 0..MaxRequestedPage]

InitPagination ==
  /\ InitComponent
  /\ pureIn \in PaginationInputs
  /\ pureOut = [done |-> FALSE]

\* the hooks are called with the arguments
PaginationCall ==
  /\ ~pureOut.done
  /\ LET calc == usePaginationCalculations(pureIn.totalItems, pureIn.itemsPerPage)
     IN  pureOut' =
           [done |-> TRUE,
            hook |-> usePagination(pureIn.totalItems, pureIn.itemsPerPage,
                                   pureIn.currentPage),
            calculations |-> calc,
            state |-> usePaginationState(pureIn.currentPage, calc.totalPages,
                                         calc.safeItemsPerPage)]
  /\ UNCHANGED <<componentVars, regex, pureIn>>

SpecPagination == InitPagination /\ [][PaginationCall]_vars

\* the reference of the pagination, from the definition of the ceiling
RefPagination(totalItems, pageSize, requested) ==
  LET safePageSize == IF pageSize >= 1 THEN pageSize ELSE 1
      pages == CHOOSE k \in 0..totalItems :
                 k * safePageSize >= totalItems /\ (k - 1) * safePageSize < totalItems
      totalPages == IF pages >= 1 THEN pages ELSE 1
      page == IF requested <= totalPages - 1 THEN requested ELSE totalPages - 1
  IN  [totalPages |-> totalPages,
       hasNextPage |-> page < totalPages - 1,
       hasPreviousPage |-> page > 0,
       startIndex |-> page * safePageSize,
       endIndex |-> page * safePageSize + safePageSize,
       currentPage |-> page]

\* C9: for every totalItems >= 0, every pageSize and every requested page
\* index >= 0, usePagination, and the split hooks of the second variant,
\* return the reference: the clamped page, hasNext, hasPrevious and the
\* slice [startIndex, startIndex + safePageSize).
C9_PaginationIsReference ==
  pureOut.done =>
    LET ref == RefPagination(pureIn.totalItems, pureIn.itemsPerPage, pureIn.currentPage)
    IN  /\ pureOut.hook = ref
        /\ pureOut.calculations.totalPages = ref.totalPages
        /\ pureOut.calculations.safeItemsPerPage = Max(1, pureIn.itemsPerPage)
        /\ pureOut.state = [hasNextPage |-> ref.hasNextPage,
                            hasPreviousPage |-> ref.hasPreviousPage,
                            startIndex |-> ref.startIndex,
                            endIndex |-> ref.endIndex,
                            currentPage |-> ref.currentPage]

\* (13, 6, 5) gives page 2 of 3, no next page, a previous page, slice [12, 18)
C9_Witness ==
  /\ pureOut.done
  /\ pureIn = [totalItems |-> 13, itemsPerPage |-> 6, currentPage |-> 5]
  /\ pureOut.hook = [totalPages |-> 3, hasNextPage |-> FALSE, hasPreviousPage |-> TRUE,
                     startIndex |-> 12, endIndex |-> 18, currentPage |-> 2]

(***************************************************************************)
(* The segmenter as a function of its argument, called after the module    *)
(* is loaded.                                                              *)
(***************************************************************************)
\* longest text the segmenter is called with
MaxSegLen == 3

\* the characters of the texts: a, space, U+4F60, the digits 2 and 7
SegAlphabet == {97, 32, 20320, 50, 55}

RECURSIVE SegTextsOfLen(_)
SegTextsOfLen(n) ==
  IF n = 0 THEN {<<>>}
  ELSE {Append(t, c) : t \in SegTextsOfLen(n - 1), c \in SegAlphabet}

SegTexts == UNION {SegTextsOfLen(n) : n \in 0..MaxSegLen}

InitSegmenter ==
  /\ InitComponent
  /\ pureIn \in SegTexts
  /\ pureOut = [done |-> FALSE]

\* separateChineseAndEnglish is called with the text
SegmenterCall ==
  /\ ~pureOut.done
  /\ LET sep == separateChineseAndEnglish(pureIn, regex)
     IN  /\ pureOut' = [done |-> TRUE, chinese |-> sep.chinese, english |-> sep.english]
         /\ regex' = RegexState(sep)
  /\ UNCHANGED <<componentVars, pureIn>>

SpecSegmenter == InitSegmenter /\ [][SegmenterCall]_vars

\* C10: for every text, the segmenter returns as retained exactly the CJK
\* characters of the text in order and as query exactly the characters
\* that are neither CJK nor ASCII digits in order; neither holds a digit,
\* and the empty text gives two empty strings.
C10_SegmenterIsReference ==
  pureOut.done =>
    /\ pureOut.chinese = Retained(pureIn)
    /\ pureOut.english = Query(pureIn)
    /\ ~HasDigit(pureOut.chinese)
    /\ ~HasDigit(pureOut.english)

(***************************************************************************)
(* The segmenter called again and again: the regexes are module-level, so  *)
(* a call starts with the lastIndex the call before it left.               *)
(***************************************************************************)
InitSegmenterCalls ==
  /\ InitComponent
  /\ pureIn = <<>>
  /\ pureOut = [done |-> FALSE]

\* separateChineseAndEnglish(text), after any calls before it
SegmenterCallAgain(text) ==
  /\ LET sep == separateChineseAndEnglish(text, regex)
     IN  /\ pureOut' = [done |-> TRUE, chinese |-> sep.chinese, english |-> sep.english]
         /\ regex' = RegexState(sep)
  /\ pureIn' = text
  /\ UNCHANGED componentVars

NextSegmenterCalls == \E text \in SegTexts : SegmenterCallAgain(text)

SpecSegmenterCalls == InitSegmenterCalls /\ [][NextSegmenterCalls]_vars

\* C11: the segmenter is pure: whatever calls came before, the result of a
\* call on a text is the result of the first call on that text after the
\* module is loaded; the lastIndex a call leaves has no influence.
C11_SegmenterIsPure ==
  pureOut.done =>
    LET first == separateChineseAndEnglish(pureIn, FreshRegex)
    IN  /\ pureOut.chinese = first.chinese
        /\ pureOut.english = first.english

(***************************************************************************)
(* The builder's precondition in the component.                            *)
(***************************************************************************)
\* the arguments the memo passes to buildSuggestionsUrl when the armed
\* timeout fires in this state
BuiltOnFire ==
  UNION {SuggestionsUrlMemo(value, regex, urlCache).built : value \in timers}

\* C12: in every reachable state there is a locator (and a request was
\* dispatched for it) if and only if the trimmed query segment of the
\* debounced buffer is non-empty, and buildSuggestionsUrl is never called
\* with a query that is empty after trimming.
C12_LocatorIffQuery ==
  /\ (suggestionsUrl # NoUrl) <=> (Trim(Query(debouncedSearchText)) # <<>>)
  /\ \A args \in BuiltOnFire : Trim(args.english) # <<>>

(***************************************************************************)
(* The empty query.                                                        *)
(***************************************************************************)
\* the candidate items rendered: none while there is an error
Displayed == IF error # NoError THEN <<>> ELSE Page

\* a step in which the trimmed query segment of the debounced buffer
\* becomes empty
QueryBecomesEmpty ==
  /\ Trim(Query(debouncedSearchText)) # <<>>
  /\ Trim(Query(debouncedSearchText')) = <<>>

\* C13: whenever the trimmed query segment of the debounced buffer becomes
\* empty, no request is made (there is no locator and no new call) and the
\* displayed candidate list becomes empty.
C13_EmptyQueryClears ==
  [][QueryBecomesEmpty =>
       /\ suggestionsUrl' = NoUrl
       /\ pending' = pending
       /\ Displayed' = <<>>]_vars

(***************************************************************************)
(* The URL builder called again and again: urlCache is module-level, so a  *)
(* call starts with the cache the calls before it left.                    *)
(***************************************************************************)
\* number of distinct non-empty queries the builder is called with
MaxQueries == 102

\* the arguments of the calls: number 0 is the empty query without retained
\* text; number n > 0 has a query of two letters, that numbers 2k-1 and 2k
\* share, and number 2k has the retained text U+4F60
CallArgs(n) ==
  IF n = 0 THEN [english |-> <<>>, chinese |-> <<>>]
  ELSE LET k == (n + 1) \div 2
       IN  [english |-> <<97 + (k \div 26), 97 + (k % 26)>>,
            chinese |-> IF n % 2 = 0 THEN <<20320>> ELSE <<>>]

\* the number of the arguments a cache key was made from
CallOfKey(cacheKey) ==
  IF cacheKey = <<>> THEN 0
  ELSE IF Len(cacheKey) = 2
       THEN 2 * ((cacheKey[1] - 97) * 26 + (cacheKey[2] - 97)) - 1
       ELSE 2 * ((cacheKey[4] - 97) * 26 + (cacheKey[5] - 97))

\* the number of the last non-empty query that was put in the cache
LastQuery(cache) ==
  IF cache = <<>> THEN 0
  ELSE IF cache[Len(cache)].key # <<>> THEN CallOfKey(cache[Len(cache)].key)
  ELSE IF Len(cache) = 1 THEN 0
  ELSE CallOfKey(cache[Len(cache) - 1].key)

\* the calls made in a state: the empty query, the next query that was
\* never asked, the oldest entry of the cache again, the newest again
Callable ==
  {0} \cup {n \in {LastQuery(urlCache) + 1} : n <= MaxQueries}
      \cup (IF urlCache = <<>> THEN {}
            ELSE {CallOfKey(urlCache[1].key), CallOfKey(urlCache[Len(urlCache)].key)})

InitUrlCache ==
  /\ InitComponent
  /\ pureIn = <<>>
  /\ pureOut = [done |-> FALSE]

\* buildSuggestionsUrl(english, chinese) is called: it returns, it never throws
BuilderCall(n) ==
  /\ LET args == CallArgs(n)
         build == buildSuggestionsUrlWithCache(args.english, args.chinese, urlCache)
     IN  /\ pureIn' = args
         /\ pureOut' = [done |-> TRUE, threw |-> FALSE, url |-> build.url,
                        hit |-> build.hit]
         /\ urlCache' = build.cache
  /\ UNCHANGED <<searchText, hasSelectedSuggestion, debouncedSearchText, timers,
                 currentPage, suggestionsUrl, suggestions, pending, stale, regex,
                 error>>

NextUrlCache == \E n \in Callable : BuilderCall(n)

SpecUrlCache == InitUrlCache /\ [][NextUrlCache]_vars

\* C14: a call of the builder with a query that is empty after trimming
\* fails with an error: it returns no locator and leaves the cache unchanged.
C14_EmptyQueryFails ==
  [][(pureOut'.done /\ Trim(pureIn'.english) = <<>>) =>
       /\ pureOut'.threw
       /\ pureOut'.url = NoUrl
       /\ urlCache' = urlCache]_vars

\* C15: after any sequence of calls of the builder, the empty query
\* included, the cache holds at most MAX_CACHE_SIZE entries.
C15_CacheBounded == Len(urlCache) <= MAX_CACHE_SIZE

\* the key of the call a step makes
CalledKey == UrlInput(pureIn'.english, pureIn'.chinese)

\* C16: eviction is first in, first out: a hit leaves the cache as it
\* is, a new key goes to the end, and a new key put into a full cache
\* removes exactly the oldest entry; so the cache is never longer than
\* MAX_CACHE_SIZE and after 101 distinct keys the first is gone and the 100
\* latest are there.
C16_FifoEviction ==
  [][pureOut'.done =>
       IF CacheHas(urlCache, CalledKey)
       THEN urlCache' = urlCache
       ELSE /\ urlCache'[Len(urlCache')].key = CalledKey
            /\ SubSeq(urlCache', 1, Len(urlCache') - 1) =
                 IF Len(urlCache) >= MAX_CACHE_SIZE THEN Tail(urlCache)
                 ELSE urlCache]_vars

\* C17: the cache is transparent: every call returns the locator computed
\* from its arguments alone, with the constant callback name, whatever the
\* calls before it put in the cache or evicted from it.
C17_CacheTransparent ==
  pureOut.done =>
    /\ pureOut.url = buildSuggestionsUrl(pureIn.english, pureIn.chinese)
    /\ pureOut.url[4] = "_callbacks____raycast"

\* a call with retained text is answered from a full cache that has evicted
\* its first entry
C17_Witness ==
  /\ pureOut.done
  /\ pureOut.hit
  /\ pureIn.chinese # <<>>
  /\ Len(urlCache) = MAX_CACHE_SIZE
  /\ ~CacheHas(urlCache, UrlInput(CallArgs(1).english, CallArgs(1).chinese))

(***************************************************************************)
(* utils.ts: the response decoder. A response text is a sequence of        *)
(* lexical units: punctuation characters, JSON string literals, the empty  *)
(* object, line breaks, and words that are no JSON (a callback name, the   *)
(* comment marker).                                                        *)
(***************************************************************************)
Punct(c) == [kind |-> "punct", text |-> c]
StringLiteral(str) == [kind |-> "string", text |-> str]
EmptyObject == [kind |-> "object", text |-> "{}"]
Word(w) == [kind |-> "word", text |-> w]
LineBreak == [kind |-> "space", text |-> "LF"]

\* the values JSON.parse returns
JString(str) == [type |-> "string", str |-> str, items |-> <<>>]
JArray(items) == [type |-> "array", str |-> "", items |-> items]
JObject == [type |-> "object", str |-> "", items |-> <<>>]

\* "." of a regex: any unit but a line terminator
MatchesDot(unit) == unit # LineBreak

\* whether \((.+)\)$ matches when the "(" is the unit at i
MatchesFrom(text, i) ==
  /\ text[i] = Punct("(")
  /\ i + 1 <= Len(text) - 1
  /\ text[Len(text)] = Punct(")")
  /\ \A j \in (i + 1)..(Len(text) - 1) : MatchesDot(text[j])

\* text.match(JSONP_MATCH_REGEX), /\((.+)\)$/: the leftmost match and its group
JSONP_MATCH_REGEX(text) ==
  LET starts == {i \in DOMAIN text : MatchesFrom(text, i)}
  IN  IF starts = {} THEN [matched |-> FALSE, group |-> <<>>]
      ELSE LET i == CHOOSE a \in starts : \A b \in starts : a <= b
           IN  [matched |-> TRUE, group |-> SubSeq(text, i + 1, Len(text) - 1)]

\* text.match(JSONP_ALT_MATCH_REGEX), /.*?\((.+)\)$/: the leftmost start, and
\* from it the nearest "(" that the lazy prefix reaches and that matches
JSONP_ALT_MATCH_REGEX(text) ==
  LET reaches(st, i) == st <= i /\ \A j \in st..(i - 1) : MatchesDot(text[j])
      starts == {st \in DOMAIN text :
                   \E i \in DOMAIN text : reaches(st, i) /\ MatchesFrom(text, i)}
  IN  IF starts = {} THEN [matched |-> FALSE, group |-> <<>>]
      ELSE LET st == CHOOSE a \in starts : \A b \in starts : a <= b
               opens == {i \in DOMAIN text : reaches(st, i) /\ MatchesFrom(text, i)}
               i == CHOOSE a \in opens : \A b \in opens : a <= b
           IN  [matched |-> TRUE, group |-> SubSeq(text, i + 1, Len(text) - 1)]

\* JSON.parse skips white space
RECURSIVE SkipSpace(_, _)
SkipSpace(units, i) ==
  IF i <= Len(units) /\ units[i].kind = "space" THEN SkipSpace(units, i + 1) ELSE i

NoParse == [ok |-> FALSE, value |-> JObject, next |-> 0]

\* JSON.parse: a value that starts at unit i, and the elements of an array
RECURSIVE ParseValue(_, _), ParseElements(_, _, _)
ParseValue(units, i) ==
  LET j == SkipSpace(units, i)
  IN  IF j > Len(units) THEN NoParse
      ELSE IF units[j].kind = "string"
      THEN [ok |-> TRUE, value |-> JString(units[j].text), next |-> j + 1]
      ELSE IF units[j].kind = "object"
      THEN [ok |-> TRUE, value |-> JObject, next |-> j + 1]
      ELSE IF units[j] = Punct("[")
      THEN LET k == SkipSpace(units, j + 1)
           IN  IF k <= Len(units) /\ units[k] = Punct("]")
               THEN [ok |-> TRUE, value |-> JArray(<<>>), next |-> k + 1]
               ELSE ParseElements(units, k, <<>>)
      ELSE NoParse

ParseElements(units, i, acc) ==
  LET element == ParseValue(units, i)
      j == SkipSpace(units, element.next)
  IN  IF ~element.ok \/ j > Len(units) THEN NoParse
      ELSE IF units[j] = Punct(",")
      THEN ParseElements(units, j + 1, Append(acc, element.value))
      ELSE IF units[j] = Punct("]")
      THEN [ok |-> TRUE, value |-> JArray(Append(acc, element.value)), next |-> j + 1]
      ELSE NoParse

\* JSON.parse(text): the value, or a SyntaxError
JSONParse(units) ==
  LET parsed == ParseValue(units, 1)
  IN  IF parsed.ok /\ SkipSpace(units, parsed.next) > Len(units) THEN parsed
      ELSE NoParse

\* the loop over data: suggestions.push(...item[1]) for the items that are
\* arrays of length >= 2 with an array at index 1
RECURSIVE ExtractSuggestions(_, _)
ExtractSuggestions(items, i) ==
  IF i > Len(items) THEN <<>>
  ELSE (IF /\ items[i].type = "array"
           /\ Len(items[i].items) >= 2
           /\ items[i].items[2].type = "array"
        THEN items[i].items[2].items ELSE <<>>)
       \o ExtractSuggestions(items, i + 1)

Thrown(message, status) ==
  [ok |-> FALSE, suggestions |-> <<>>, error |-> message, status |-> status]

\* parseSuggestionsResponse(jsonpText): the suggestions returned, or the
\* message of the error thrown (with the status, for a status not SUCCESS)
parseSuggestionsResponse(jsonpText) ==
  LET first == JSONP_MATCH_REGEX(jsonpText)
      match == IF first.matched THEN first ELSE JSONP_ALT_MATCH_REGEX(jsonpText)
      jsonData == JSONParse(match.group)
      status == jsonData.value.items[1]
      data == jsonData.value.items[2]
  IN  IF ~match.matched THEN Thrown("Invalid JSONP response format", "")
      ELSE IF ~jsonData.ok THEN Thrown("Failed to parse JSON response", "")
      ELSE IF jsonData.value.type # "array" \/ Len(jsonData.value.items) < 2
      THEN Thrown("Unexpected response format", "")
      ELSE IF status # JString("SUCCESS")
      THEN Thrown("API returned status: ", status.str)
      ELSE [ok |-> TRUE,
            suggestions |-> IF data.type = "array"
                            THEN ExtractSuggestions(data.items, 1) ELSE <<>>,
            error |-> "", status |-> ""]

(***************************************************************************)
(* The responses the decoder is called with, each described by its parts   *)
(* and written out as text.                                                *)
(***************************************************************************)
\* most candidate groups in a data payload
MaxGroups == 2
\* most candidates in a group
MaxCands == 2

RECURSIVE CandListsOfLen(_)
CandListsOfLen(n) ==
  IF n = 0 THEN {<<>>}
  ELSE {Append(l, c) : l \in CandListsOfLen(n - 1), c \in {"U+4F60", "U+597D"}}

\* a group: ["m", [candidates], [], {}] (full), ["m", [candidates]] (pair),
\* ["m"] (short), ["m", "x"] (flat), "meta" (scalar) or {} (object)
GroupDescs ==
  {[shape |-> "full", cands |-> l] :
     l \in UNION {CandListsOfLen(n) : n \in 0..MaxCands}}
  \cup {[shape |-> sh, cands |-> <<"U+597D">>] :
          sh \in {"pair", "short", "flat", "scalar", "object"}}

RECURSIVE GroupListsOfLen(_)
GroupListsOfLen(n) ==
  IF n = 0 THEN {<<>>}
  ELSE {Append(l, g) : l \in GroupListsOfLen(n - 1), g \in GroupDescs}

GroupLists == UNION {GroupListsOfLen(n) : n \in 0..MaxGroups}

\* how the payload is wrapped: name(payload), comment marker and
\* name(payload), the payload alone, name(payload) and more text, name(),
\* name( line break payload), a comment with parentheses and name(payload)
Envelopes == {"jsonp", "comment", "bare", "trailing", "empty", "multiline", "nested"}

\* the payload: [status, data], [status, data, {}], [status], the status
\* string alone, {}, the cut text [status, and a word that is no JSON
Payloads == {"array", "extra", "single", "string", "object", "truncated", "word"}

ResponseDescs ==
  {[envelope |-> "jsonp", payload |-> "array", status |-> "SUCCESS",
    dataKind |-> "groups", groups |-> gs] : gs \in GroupLists}
  \cup {[envelope |-> e, payload |-> pl, status |-> st, dataKind |-> dk, groups |-> gs] :
          e \in Envelopes, pl \in Payloads, st \in {"SUCCESS", "FAILURE"},
          dk \in {"groups", "string"},
          gs \in {<<>>, <<[shape |-> "full", cands |-> <<"U+597D", "U+4F60">>],
                         [shape |-> "scalar", cands |-> <<"U+597D">>]>>}}

\* the units of texts joined by commas
RECURSIVE Joined(_, _)
Joined(texts, i) ==
  IF i > Len(texts) THEN <<>>
  ELSE texts[i] \o (IF i < Len(texts) THEN <<Punct(",")>> ELSE <<>>)
       \o Joined(texts, i + 1)

Bracketed(texts) == <<Punct("[")>> \o Joined(texts, 1) \o <<Punct("]")>>

GroupText(g) ==
  LET key == <<StringLiteral("m")>>
      cands == Bracketed([i \in DOMAIN g.cands |-> <<StringLiteral(g.cands[i])>>])
  IN  IF g.shape = "full"
      THEN Bracketed(<<key, cands, Bracketed(<<>>), <<EmptyObject>>>>)
      ELSE IF g.shape = "pair" THEN Bracketed(<<key, cands>>)
      ELSE IF g.shape = "short" THEN Bracketed(<<key>>)
      ELSE IF g.shape = "flat" THEN Bracketed(<<key, <<StringLiteral("x")>>>>)
      ELSE IF g.shape = "scalar" THEN <<StringLiteral("meta")>>
      ELSE <<EmptyObject>>

DataText(d) ==
  IF d.dataKind = "groups"
  THEN Bracketed([i \in DOMAIN d.groups |-> GroupText(d.groups[i])])
  ELSE <<StringLiteral("quota exceeded")>>

PayloadText(d) ==
  LET status == <<StringLiteral(d.status)>>
  IN  IF d.payload = "array" THEN Bracketed(<<status, DataText(d)>>)
      ELSE IF d.payload = "extra"
      THEN Bracketed(<<status, DataText(d), <<EmptyObject>>>>)
      ELSE IF d.payload = "single" THEN Bracketed(<<status>>)
      ELSE IF d.payload = "string" THEN status
      ELSE IF d.payload = "object" THEN <<EmptyObject>>
      ELSE IF d.payload = "truncated" THEN <<Punct("[")>> \o status \o <<Punct(",")>>
      ELSE <<Word("error")>>

\* the response text
ResponseText(d) ==
  LET name == <<Word("_callbacks____x")>>
      wrapped(units) == <<Punct("(")>> \o units \o <<Punct(")")>>
  IN  IF d.envelope = "jsonp" THEN name \o wrapped(PayloadText(d))
      ELSE IF d.envelope = "comment"
      THEN <<Word("/*API*/")>> \o name \o wrapped(PayloadText(d))
      ELSE IF d.envelope = "bare" THEN PayloadText(d)
      ELSE IF d.envelope = "trailing"
      THEN name \o wrapped(PayloadText(d)) \o <<Word(";")>>
      ELSE IF d.envelope = "empty" THEN name \o wrapped(<<>>)
      ELSE IF d.envelope = "multiline"
      THEN name \o wrapped(<<LineBreak>> \o PayloadText(d))
      ELSE <<Word("/*API")>> \o wrapped(<<Word("v2")>>) \o <<Word("*/")>>
           \o name \o wrapped(PayloadText(d))

InitDecoder ==
  /\ InitComponent
  /\ pureIn \in {[desc |-> d, text |-> ResponseText(d)] : d \in ResponseDescs}
  /\ pureOut = [done |-> FALSE]

\* parseSuggestionsResponse is called with the text
DecoderCall ==
  /\ ~pureOut.done
  /\ LET out == parseSuggestionsResponse(pureIn.text)
     IN  pureOut' = [done |-> TRUE, ok |-> out.ok, suggestions |-> out.suggestions,
                     error |-> out.error, status |-> out.status]
  /\ UNCHANGED <<componentVars, regex, pureIn>>

SpecDecoder == InitDecoder /\ [][DecoderCall]_vars

\* the candidates of the groups that are arrays of length >= 2 with an
\* array second, in the order of the groups
RECURSIVE CandidatesOf(_, _)
CandidatesOf(groups, i) ==
  IF i > Len(groups) THEN <<>>
  ELSE (IF groups[i].shape \in {"full", "pair"}
        THEN [j \in DOMAIN groups[i].cands |-> JString(groups[i].cands[j])]
        ELSE <<>>)
       \o CandidatesOf(groups, i + 1)

\* the text ends with a parenthesized payload
HasPayload(d) == d.envelope \in {"jsonp", "comment", "multiline", "nested"}

\* C18: for a response whose payload is a JSON array ["SUCCESS", data] the
\* decoder returns the candidates of every group of data that is an array
\* of length >= 2 with an array second, concatenated in order, not sorted
\* and with duplicates; the other groups are skipped without an error, and
\* a data payload without groups gives the empty sequence.
C18_DecoderConcatenates ==
  (/\ pureOut.done
   /\ HasPayload(pureIn.desc)
   /\ pureIn.desc.payload = "array"
   /\ pureIn.desc.status = "SUCCESS") =>
    /\ pureOut.ok
    /\ pureOut.suggestions =
         IF pureIn.desc.dataKind = "groups"
         THEN CandidatesOf(pureIn.desc.groups, 1) ELSE <<>>

\* the error a bad response is to be classified as, by its parts ("" for a
\* response that is not bad)
ErrorClass(d) ==
  IF d.envelope \in {"bare", "trailing"} THEN "MalformedEnvelope"
  ELSE IF d.envelope = "empty" \/ d.payload \in {"truncated", "word"}
  THEN "MalformedPayload"
  ELSE IF d.payload \in {"single", "string", "object"} THEN "UnexpectedShape"
  ELSE IF d.status # "SUCCESS" THEN "ProviderError"
  ELSE ""

\* the error a thrown message stands for
ClassOfMessage(message) ==
  IF message = "Invalid JSONP response format" THEN "MalformedEnvelope"
  ELSE IF message = "Failed to parse JSON response" THEN "MalformedPayload"
  ELSE IF message = "Unexpected response format" THEN "UnexpectedShape"
  ELSE IF message = "API returned status: " THEN "ProviderError"
  ELSE ""

\* C19: a bad response is classified as exactly one error, in this order:
\* MalformedEnvelope for a text without a parenthesized suffix, else
\* MalformedPayload for content that is no JSON, else UnexpectedShape for a
\* value that is no array of length >= 2, else ProviderError with the
\* status for a status that is not "SUCCESS"; no candidates are returned.
C19_DecoderClassifies ==
  (pureOut.done /\ ErrorClass(pureIn.desc) # "") =>
    /\ ~pureOut.ok
    /\ pureOut.suggestions = <<>>
    /\ ClassOfMessage(pureOut.error) = ErrorClass(pureIn.desc)
    /\ ErrorClass(pureIn.desc) = "ProviderError" => pureOut.status = pureIn.desc.status

(***************************************************************************)
(* Errors of the fetch.                                                    *)
(***************************************************************************)
\* a step in which an error arrives
ErrorArrives == error' # NoError /\ error' # error

\* a step in which a request is dispatched
RequestDispatched == pending' # NoUrl /\ pending' # pending

\* C20: an error of the decoder or of the transport is not fatal and is not
\* retried: its arrival sets the visible error and leaves the buffer, the
\* page index, the has-selected flag and the candidate list held as they
\* are, with no request outstanding and none scheduled; a request is only
\* dispatched when the debounce of an edit fires, and never for the locator
\* that is current; after an error an edit is debounced and, with a new
\* non-empty locator, dispatched as before.
C20_ErrorNotFatal ==
  [][/\ ErrorArrives =>
          /\ error' \in ErrorMessages
          /\ pending' = NoUrl
          /\ UNCHANGED <<searchText, currentPage, hasSelectedSuggestion, suggestions,
                         timers, debouncedSearchText, suggestionsUrl>>
     /\ RequestDispatched =>
          /\ debouncedSearchText' \in timers
          /\ debouncedSearchText' # debouncedSearchText
          /\ pending' # suggestionsUrl
     /\ (error # NoError /\ searchText' # searchText) => timers' = {searchText'}
     /\ (error # NoError /\ suggestionsUrl' # suggestionsUrl /\ suggestionsUrl' # NoUrl)
          => pending' = suggestionsUrl']_vars

\* after an error that left the candidates of an earlier response held, the
\* debounce of a later edit has dispatched a request
C20_Witness ==
  /\ error \in ErrorMessages
  /\ pending # NoUrl
  /\ suggestions = ProviderList(MaxItems)
  /\ searchText = <<97>>
  /\ timers = {}

(***************************************************************************)
(* The preference simplifiedChinese and the text handed to Copy and Paste. *)
(***************************************************************************)
\* the preference of the run
Preferences == pureIn

\* the content of Action.Paste and Action.CopyToClipboard of the last render
inputPreviewActions ==
  convertIfNeeded(searchText, Preferences.simplifiedChinese,
                  useOpenCCConverter(Preferences.simplifiedChinese))

\* the component under either value of the preference, which is read once
InitPreferences ==
  /\ InitComponent
  /\ pureIn \in {[simplifiedChinese |-> f] : f \in BOOLEAN}
  /\ pureOut = <<>>

SpecPreferences == InitPreferences /\ [][Next]_vars

\* a text without the simplified form the converter alone produces
Unconverted(text) == \A i \in DOMAIN text : text[i] # 23398

LongListTexts == {<<>>, <<97>>, <<48>>, <<57>>, <<97, 48>>, <<97, 57>>}

\* responses of two and of three pages
LongResponses == {ProviderList(n) : n \in {MaxItems, 2 * MaxItems - 1}}

NextLongLists ==
  \/ \E text \in LongListTexts : handleSearchTextChange(text)
  \/ \E value \in timers : DebounceFire(value)
  \/ \E candidates \in LongResponses : ReceiveResponse(candidates)
  \/ \E message \in ErrorMessages : ReceiveError(message)
  \/ DiscardStale

SpecLongLists == Init /\ [][NextLongLists]_vars

\* C22: in every reachable state, a buffer-change event with a text
\* base+"9", when a previous page exists, decreases the displayed (clamped)
\* page index by exactly one and sets the buffer to base, also when the
\* stored page index exceeds the clamped one because the list shrank.
C22_PreviousPage ==
  \A text \in LongListTexts :
    LET s == AfterSearchTextChange(text)
    IN  (LastChar(text) = 57 /\ Pagination.hasPreviousPage)
        => /\ usePagination(Len(s.suggestions), SUGGESTIONS_PER_PAGE,
                            s.currentPage).currentPage = DisplayedPage - 1
           /\ s.searchText = Base(text)

\* C23: at the moment the candidate list is replaced by the response of the
\* latest call, the page index that is displayed is 0 (and so the first
\* page of the new list is shown), also when the user pressed 0 or 9 while
\* the response was pending and the previous candidates were shown.
C23_PageZeroOnResponse ==
  [][LatestResponseStep =>
       usePagination(Len(suggestions'), SUGGESTIONS_PER_PAGE,
                     currentPage').currentPage = 0]_vars

\* C24: in every reachable state with an empty buffer the has-selected flag
\* is false and the debounce window is the short one, also when the buffer
\* became empty through an event text that is not empty (digits only, or a
\* page navigation with an empty base); the window is the long one only
\* with the flag set and a buffer that is not empty.
C24_FlagFalseWhenEmpty ==
  /\ searchText = <<>> => ~hasSelectedSuggestion
  /\ searchText = <<>> => DebounceDelay(hasSelectedSuggestion) = INITIAL_DEBOUNCE_DELAY
  /\ DebounceDelay(hasSelectedSuggestion) = DEBOUNCE_DELAY
       => (hasSelectedSuggestion /\ searchText # <<>>)

(***************************************************************************)
(* The component with event texts that end in a key without a function.    *)
(***************************************************************************)
\* the event texts: "", "a", "2", "7", "a7", "2a" and " "
PlainKeyTexts == {<<>>, <<97>>, <<50>>, <<55>>, <<97, 55>>, <<50, 97>>, <<32>>}

NextPlainKeys ==
  \/ \E text \in PlainKeyTexts : handleSearchTextChange(text)
  \/ \E value \in timers : DebounceFire(value)
  \/ \E candidates \in Responses : ReceiveResponse(candidates)
  \/ \E message \in ErrorMessages : ReceiveError(message)
  \/ DiscardStale

SpecPlainKeys == Init /\ [][NextPlainKeys]_vars

\* an event text that is not a control keystroke: it ends in 7 or 8, or not
\* in a digit
NonControl(text) == LastChar(text) \notin {48, 49, 50, 51, 52, 53, 54, 57}

\* C25: in every reachable state, a buffer-change event with a text that is
\* not a control keystroke sets the buffer to the retained segment of the
\* text followed by its query segment, every digit dropped, and changes
\* neither the page index, nor the candidate list, nor the has-selected
\* flag, except that a blank text clears the flag.
C25_PlainEdit ==
  \A text \in PlainKeyTexts :
    LET s == AfterSearchTextChange(text)
    IN  NonControl(text)
        => /\ s.searchText = Retained(text) \o Query(text)
           /\ s.currentPage = currentPage
           /\ s.suggestions = suggestions
           /\ s.hasSelectedSuggestion =
                IF Trim(text) = <<>> THEN FALSE ELSE hasSelectedSuggestion

\* C26: a digit keystroke only selects a candidate that was returned for
\* the query segment of the buffer as it stood before the keystroke. No
\* request is made for a blank query segment, so in every reachable state
\* in which an event text ending in a digit n of 1..6 selects the n-th
\* candidate of the page, the query segment of the buffer (a digit it holds
\* counted with it) is not blank.
C26_SelectsForCurrentQuery ==
  \A text \in EventTexts :
    LET n == LastChar(text) - 48
        s == AfterSearchTextChange(text)
    IN  (/\ n \in 1..6
         /\ Len(Page) >= n
         /\ s.searchText = Retained(searchText) \o Page[n].text)
        => Trim(QueryOrDigits(searchText)) # <<>>

\* C27: a digit of 1..6 selects only a candidate that is displayed: in
\* every reachable state in which an error is set, so that no candidate is
\* rendered, no event text ending in such a digit is handled as a
\* selection, which would leave the buffer equal to the retained segment
\* followed by a candidate, the flag set and the list cleared.
C27_NoSelectionUnderError ==
  \A text \in EventTexts :
    LET n == LastChar(text) - 48
        s == AfterSearchTextChange(text)
    IN  (error # NoError /\ n \in 1..6 /\ Len(Page) >= n)
        => ~(/\ Displayed = <<>>
             /\ s.searchText = Retained(searchText) \o Page[n].text
             /\ s.hasSelectedSuggestion
             /\ s.suggestions = <<>>)

(***************************************************************************)
(* The component under fairness: an armed timeout fires, and a call of     *)
(* useFetch completes, with a response or with an error.                   *)
(***************************************************************************)
\* the timeout that is armed fires
TimerFires == \E value \in timers : DebounceFire(value)

\* the latest call of useFetch completes
FetchCompletes ==
  \/ \E candidates \in Responses : ReceiveResponse(candidates)
  \/ \E message \in ErrorMessages : ReceiveError(message)

\* the event texts: "", "a", U+4F60, and the keys 2 and 0
LiveTexts == {<<>>, <<97>>, <<20320>>, <<50>>, <<48>>}

\* a buffer-change event
EventStep == \E text \in LiveTexts : handleSearchTextChange(text)

NextLive ==
  \/ EventStep
  \/ TimerFires
  \/ FetchCompletes
  \/ DiscardStale

SpecLive == Init /\ [][NextLive]_vars /\ WF_vars(TimerFires) /\ WF_vars(FetchCompletes)

\* the locator built from a buffer
LocatorOf(text) == buildSuggestionsUrl(Query(text), Retained(text))

\* the buffer has passed the debounce, useFetch holds the locator built from
\* it, and its call has completed
Settled ==
  /\ timers = {}
  /\ debouncedSearchText = searchText
  /\ suggestionsUrl = LocatorOf(searchText)
  /\ pending = NoUrl

====
